---- MODULE Spec2Model ----
(***************************************************************************)
(* Model of src/gadgets/int8.rs: the Int8 gadget (a signed byte held as 8  *)
(* Boolean circuit values plus an optional cleartext i8), its constructors *)
(* constant and new_variable, the equality gadget, value(), and addmany,   *)
(* acting on one rank-1 constraint system.                                 *)
(*                                                                         *)
(* Field elements are modelled by integers.  Every coefficient and every   *)
(* evaluated linear combination of this model has magnitude below 2^10,    *)
(* far below the modulus of any PrimeField the gadget is used with (Fr of  *)
(* BLS12-381 in the tests), so a linear combination is zero in the field   *)
(* exactly when it is zero over the integers.                              *)
(***************************************************************************)
EXTENDS Integers, Sequences, FiniteSets, TLC

VARIABLES cs, xin, yin, x, y, z, res, eq, enfXY, enfZR

vars == <<cs, xin, yin, x, y, z, res, eq, enfXY, enfZR>>

(***************************************************************************)
(* Program constants and bounds                                            *)
(***************************************************************************)
I8_SIZE_IN_BITS == 8
OPERANDS_LEN == 2
I8_MAX == 127
I8_MIN == (0 - I8_MAX) - 1

\* Operand values of the addition/equality runs are drawn from the windows of
\* this width around i8::MIN, 0 and i8::MAX.
EdgeWidth == 2

I8 == I8_MIN..I8_MAX

Vals == (I8_MIN..(I8_MIN + EdgeWidth)) \cup ((0 - EdgeWidth)..EdgeWidth)
          \cup ((I8_MAX - EdgeWidth)..I8_MAX)

(***************************************************************************)
(* Option and Result                                                       *)
(***************************************************************************)
None == <<>>
Some(v) == <<v>>
IsSome(o) == o # <<>>
Unwrap(o) == o[1]

Ok(v) == [ok |-> TRUE, v |-> v]
Err(e) == [ok |-> FALSE, err |-> e]

\* A harness slot that no call has filled yet.
Unset == [ok |-> FALSE, err |-> "unset"]
IsOk(r) == r.ok
IsErr(r) == ~r.ok /\ r.err # "unset"

(***************************************************************************)
(* Integer helpers used by the code                                        *)
(***************************************************************************)
RECURSIVE Pow2(_)
Pow2(n) == IF n = 0 THEN 1 ELSE 2 * Pow2(n - 1)

\* Mutant: a shift that rounds towards zero (a division, not a shift).
ShrTruncating(v, i) ==
  IF v < 0 THEN 0 - ((0 - v) \div Pow2(i)) ELSE v \div Pow2(i)

\* `v >> i` on i8 and on BigInt: arithmetic shift, rounding towards minus
\* infinity.
Shr(v, i) == v \div Pow2(i)

\* `v & 1` on a two's-complement integer.
And1(v) == v % 2

\* Wrap an integer into i8 (what the machine keeps of a result).
WrapI8(n) == ((n - I8_MIN) % Pow2(I8_SIZE_IN_BITS)) + I8_MIN

\* `b << i` on i8: bits shifted out of the byte are dropped.
ShlI8(b, i) == WrapI8(b * Pow2(i))

\* BigInt::to_i8
ToI8(n) == IF n \in I8 THEN Some(n) ELSE None

(***************************************************************************)
(* The constraint system (ark_relations ConstraintSystem) as the gadget    *)
(* uses it.  A variable is <<"One", 0>>, <<"Instance", i>> or              *)
(* <<"Witness", i>>; a linear combination is a sequence of                 *)
(* <<coefficient, variable>> terms; a constraint is a * b = c.             *)
(***************************************************************************)
One == <<"One", 0>>

SynthesisModes == {"Prove", "Setup"}
AllocationModes == {"Constant", "Input", "Witness"}

NewCs(mode) ==
  [mode |-> mode, instance |-> <<>>, witness |-> <<>>, num_instance |-> 0,
   num_witness |-> 0, constraints |-> <<>>]

\* cs.assigned_value(var)
AssignedValue(c, var) ==
  IF var[1] = "One" THEN Some(1)
  ELSE IF c.mode = "Setup" THEN None
  ELSE IF var[1] = "Instance" THEN Some(c.instance[var[2]])
  ELSE Some(c.witness[var[2]])

RECURSIVE EvalLC(_, _)
EvalLC(c, lc) ==
  IF lc = <<>> THEN 0
  ELSE Head(lc)[1] * Unwrap(AssignedValue(c, Head(lc)[2])) + EvalLC(c, Tail(lc))

ConstraintHolds(c, k) ==
  EvalLC(c, k.a) * EvalLC(c, k.b) = EvalLC(c, k.c)

\* cs.is_satisfied(): Err(AssignmentMissing) in setup mode.
IsSatisfied(c) ==
  IF c.mode = "Setup" THEN Err("AssignmentMissing")
  ELSE Ok(\A i \in 1..Len(c.constraints) : ConstraintHolds(c, c.constraints[i]))

EnforceConstraint(c, a, b, cc) ==
  [c EXCEPT !.constraints = Append(@, [a |-> a, b |-> b, c |-> cc])]

BoolToField(b) == IF b THEN 1 ELSE 0

\* cs.new_witness_variable / cs.new_input_variable with a value thunk `val`
\* (an Option of BOOLEAN); the thunk is only run outside setup mode.
\* Returns <<Result of variable, cs>>.
NewCsVariable(c, val, kind) ==
  IF c.mode # "Setup" /\ ~IsSome(val) THEN <<Err("AssignmentMissing"), c>>
  ELSE IF kind = "Input"
    THEN <<Ok(<<"Instance", c.num_instance + 1>>),
           [c EXCEPT !.num_instance = @ + 1,
                     !.instance = IF c.mode = "Setup" THEN @
                                  ELSE Append(@, BoolToField(Unwrap(val)))]>>
    ELSE <<Ok(<<"Witness", c.num_witness + 1>>),
           [c EXCEPT !.num_witness = @ + 1,
                     !.witness = IF c.mode = "Setup" THEN @
                                 ELSE Append(@, BoolToField(Unwrap(val)))]>>

\* AllocatedBool::new_variable for Input/Witness: a fresh variable plus the
\* booleanity constraint (1 - a) * a = 0.
AllocatedBoolNew(c, val, kind) ==
  LET r == NewCsVariable(c, val, kind) IN
  IF ~r[1].ok THEN r
  ELSE <<r[1],
         EnforceConstraint(r[2], <<<<1, One>>, <<-1, r[1].v>>>>,
                           <<<<1, r[1].v>>>>, <<>>)>>

(***************************************************************************)
(* Boolean cells                                                           *)
(***************************************************************************)
BConst(b) == [kind |-> "Constant", b |-> b]
BIs(var) == [kind |-> "Is", var |-> var]
BNot(var) == [kind |-> "Not", var |-> var]

\* Boolean::new_variable
BooleanNew(c, val, mode) ==
  IF mode = "Constant"
    THEN IF IsSome(val) THEN <<Ok(BConst(Unwrap(val))), c>>
         ELSE <<Err("AssignmentMissing"), c>>
    ELSE LET r == AllocatedBoolNew(c, val, mode) IN
         IF r[1].ok THEN <<Ok(BIs(r[1].v)), r[2]>> ELSE r

\* Boolean::value(): Option of BOOLEAN (None stands for AssignmentMissing).
BoolValue(c, bit) ==
  IF bit.kind = "Constant" THEN Some(bit.b)
  ELSE LET a == AssignedValue(c, bit.var) IN
       IF ~IsSome(a) THEN None
       ELSE IF bit.kind = "Is" THEN Some(Unwrap(a) = 1)
       ELSE Some(Unwrap(a) # 1)

(***************************************************************************)
(* Int8                                                                    *)
(***************************************************************************)
MkInt8(bits, value) == [bits |-> bits, value |-> value]

\* The closure of Int8::constant: one cell from the lowest bit of tmp.
ConstantBit(tmp) == BConst(And1(tmp) = 1)

\* The for_each of Int8::constant over the n remaining cells.
RECURSIVE ConstantLoop(_, _)
ConstantLoop(tmp, n) ==
  IF n = 0 THEN <<>>
  ELSE <<ConstantBit(tmp)>> \o ConstantLoop(Shr(tmp, 1), n - 1)

\* Int8::constant
Constant(value) == MkInt8(ConstantLoop(value, I8_SIZE_IN_BITS), Some(value))

\* Mutant: the bit one position too high.
BitOfValueOffByOne(val, i) == And1(Shr(val, i + 1)) = 1

\* The `values` array of new_variable: bit i of val, or all unknown.
BitOfValue(val, i) == And1(Shr(val, i)) = 1

BitValues(value) ==
  [i \in 1..I8_SIZE_IN_BITS |->
     IF IsSome(value) THEN Some(BitOfValue(Unwrap(value), i - 1)) ELSE None]

\* The allocation loop of new_variable from cell i on; stops at the first
\* error.  Returns <<Result of cells, cs>>.
RECURSIVE AllocBits(_, _, _, _, _)
AllocBits(c, values, mode, i, acc) ==
  IF i > Len(values) THEN <<Ok(acc), c>>
  ELSE LET r == BooleanNew(c, values[i], mode) IN
       IF ~r[1].ok THEN r
       ELSE AllocBits(r[2], values, mode, i + 1, Append(acc, r[1].v))

\* AllocVar::new_variable; `value` is what the thunk f yields (None when it
\* fails).  Returns <<Result of Int8, cs>>.
NewVariable(c, value, mode) ==
  LET r == AllocBits(c, BitValues(value), mode, 1, <<>>) IN
  IF r[1].ok THEN <<Ok(MkInt8(r[1].v, value)), r[2]>> ELSE r

\* One step of the accumulation in R1CSVar::value: value + (b << i) on i8.
\* An i8 overflow panics (debug build); it is reported as None.
ValueStep(acc, b, i) == ToI8(acc + ShlI8(b, i))

RECURSIVE ValueLoop(_, _, _, _)
ValueLoop(c, n, i, acc) ==
  IF i > Len(n.bits) THEN Ok(acc)
  ELSE LET b == BoolValue(c, n.bits[i]) IN
       IF ~IsSome(b) THEN Err("AssignmentMissing")
       ELSE LET nxt == ValueStep(acc, BoolToField(Unwrap(b)), i - 1) IN
            IF ~IsSome(nxt) THEN Err("panic: overflow")
            ELSE ValueLoop(c, n, i + 1, Unwrap(nxt))

\* R1CSVar::value, with the debug_assert_eq of the stored value.
Value(c, n) ==
  LET r == ValueLoop(c, n, 1, 0) IN
  IF r.ok /\ n.value # Some(r.v) THEN Err("panic: assertion failed") ELSE r

\* ToBitsGadget::to_bits_le
ToBitsLe(n) == n.bits

(***************************************************************************)
(* Int8::addmany                                                           *)
(***************************************************************************)
\* Mutant: the bound of the unsigned patterns, (2^8 - 1) * OPERANDS_LEN.
MaxValueUnsigned == (Pow2(I8_SIZE_IN_BITS) - 1) * OPERANDS_LEN

\* max_value before the allocation loop: i8::MAX * OPERANDS_LEN.
MaxValue == I8_MAX * OPERANDS_LEN

\* result_value after the loop over the operands: the exact sum, or None as
\* soon as one operand's value is None.
RECURSIVE ResultValue(_, _, _)
ResultValue(ops, k, acc) ==
  IF k > Len(ops) THEN acc
  ELSE ResultValue(ops, k + 1,
         IF IsSome(ops[k].value)
           THEN (IF IsSome(acc) THEN Some(Unwrap(acc) + Unwrap(ops[k].value))
                 ELSE acc)
           ELSE None)

\* What one cell of an operand adds to lc under coefficient coeff.
BitTerms(bit, coeff) ==
  IF bit.kind = "Is" THEN <<<<coeff, bit.var>>>>
  ELSE IF bit.kind = "Not" THEN <<<<coeff, One>>, <<0 - coeff, bit.var>>>>
  ELSE IF bit.b THEN <<<<coeff, One>>>>
  ELSE <<>>

\* The inner loop over the cells of one operand, coeff doubling per cell.
RECURSIVE OperandTerms(_, _, _)
OperandTerms(bits, i, coeff) ==
  IF i > Len(bits) THEN <<>>
  ELSE BitTerms(bits[i], coeff) \o OperandTerms(bits, i + 1, 2 * coeff)

\* lc after the loop over the operands: every operand starts at coeff one.
RECURSIVE OperandsLC(_, _)
OperandsLC(ops, k) ==
  IF k > Len(ops) THEN <<>>
  ELSE OperandTerms(ops[k].bits, 1, 1) \o OperandsLC(ops, k + 1)

\* Mutant: all_constants starting out false.
AllConstantsNever(ops) == FALSE

\* all_constants after the loop: no cell of any operand is Is or Not.
AllConstants(ops) ==
  \A k \in 1..Len(ops) : \A i \in 1..Len(ops[k].bits) :
     ops[k].bits[i].kind = "Constant"

\* The closure mapped over result_value: bias by 2^7, mod_floor 2^8, unbias,
\* to_i8.
ModularValue(v) ==
  LET modulus == Pow2(I8_SIZE_IN_BITS)
      shift == Pow2(I8_SIZE_IN_BITS - 1)
      r == ToI8(((v + shift) % modulus) - shift)
  IN IF IsSome(r) THEN Ok(Unwrap(r))
     ELSE Err("Modular value cannot be represented as i8.")

\* Mutant: the bit taken from the magnitude of the sum.
ResultBitMagnitude(v, i) == And1(Shr(IF v < 0 THEN 0 - v ELSE v, i)) = 1

\* The value thunk of result bit i: (v >> i) & 1 == 1 on the exact sum.
ResultBit(v, i) == And1(Shr(v, i)) = 1

\* The `while max_value != 0` loop: allocates one witness cell per bit of
\* max_value and subtracts it from lc.  Returns <<Result of <<cells, lc>>, cs>>.
RECURSIVE ResultLoop(_, _, _, _, _, _, _)
ResultLoop(c, result_value, max_value, i, coeff, lc, bits) ==
  IF max_value = 0 THEN <<Ok(<<bits, lc>>), c>>
  ELSE LET val == IF IsSome(result_value)
                    THEN Some(ResultBit(Unwrap(result_value), i)) ELSE None
           r == AllocatedBoolNew(c, val, "Witness")
       IN IF ~r[1].ok THEN r
          ELSE ResultLoop(r[2], result_value, Shr(max_value, 1), i + 1,
                          2 * coeff, Append(lc, <<0 - coeff, r[1].v>>),
                          Append(bits, BIs(r[1].v)))

\* result_bits.truncate(n)
Truncate(bits, n) == IF Len(bits) > n THEN SubSeq(bits, 1, n) ELSE bits

\* Int8::addmany.  Returns <<Result of Int8, cs>>.
AddMany(c, ops) ==
  LET result_value == ResultValue(ops, 1, Some(0))
      lc == OperandsLC(ops, 1)
      all_constants == AllConstants(ops)
      modular_value == IF IsSome(result_value)
                         THEN Some(ModularValue(Unwrap(result_value)))
                         ELSE None
  IN
  IF IsSome(modular_value) /\ Unwrap(modular_value).ok /\ all_constants
    THEN <<Ok(Constant(Unwrap(modular_value).v)), c>>
  ELSE IF all_constants THEN <<Err("MissingCS"), c>>
  ELSE LET r == ResultLoop(c, result_value, MaxValue, 0, 1, lc, <<>>) IN
       IF ~r[1].ok THEN r
       ELSE LET c2 == EnforceConstraint(r[2], <<>>, <<>>, r[1].v[2])
                bits == Truncate(r[1].v[1], I8_SIZE_IN_BITS)
            IN IF Len(bits) # I8_SIZE_IN_BITS
                 THEN <<Err("TryFrom: wrong number of bits"), c2>>
               ELSE IF ~IsSome(modular_value)
                 THEN <<Err("The result of the modular addition between Int8 is None"), c2>>
               ELSE IF ~Unwrap(modular_value).ok
                 THEN <<Unwrap(modular_value), c2>>
               ELSE <<Ok(MkInt8(bits, Some(Unwrap(modular_value).v))), c2>>

(***************************************************************************)
(* EqGadget for Int8: is_eq and enforce_equal delegate to the cells        *)
(* (Boolean::is_eq, Boolean::kary_and, Boolean::conditional_enforce_equal).*)
(***************************************************************************)
\* Boolean::lc(): the cell as a linear combination.
BoolLC(bit) == BitTerms(bit, 1)

NegLC(lc) == [i \in 1..Len(lc) |-> <<0 - lc[i][1], lc[i][2]>>]

\* Boolean::not
BoolNot(bit) ==
  IF bit.kind = "Constant" THEN BConst(~bit.b)
  ELSE IF bit.kind = "Is" THEN BNot(bit.var)
  ELSE BIs(bit.var)

\* A fresh witness w without booleanity check, tied to cells p and q by the
\* constraint la * lb = lc + k * w (AllocatedBool::xor / and / and_not / nor).
GateAlloc(c, val, la, lb, lc, k) ==
  LET r == NewCsVariable(c, val, "Witness") IN
  IF ~r[1].ok THEN r
  ELSE <<Ok(BIs(r[1].v)),
         EnforceConstraint(r[2], la, lb, Append(lc, <<k, r[1].v>>))>>

OptXor(a, b) ==
  IF IsSome(a) /\ IsSome(b) THEN Some(Unwrap(a) # Unwrap(b)) ELSE None

OptAnd(a, b) ==
  IF IsSome(a) /\ IsSome(b) THEN Some(Unwrap(a) /\ Unwrap(b)) ELSE None

\* Boolean::xor.  Returns <<Result of cell, cs>>.
BoolXor(c, p, q) ==
  IF p.kind = "Constant" THEN <<Ok(IF p.b THEN BoolNot(q) ELSE q), c>>
  ELSE IF q.kind = "Constant" THEN <<Ok(IF q.b THEN BoolNot(p) ELSE p), c>>
  ELSE LET r == GateAlloc(c,
                  OptXor(BoolValue(c, BIs(p.var)), BoolValue(c, BIs(q.var))),
                  <<<<2, p.var>>>>, <<<<1, q.var>>>>,
                  <<<<1, p.var>>, <<1, q.var>>>>, -1)
       IN IF ~r[1].ok THEN r
          ELSE IF p.kind = q.kind THEN r
          ELSE <<Ok(BoolNot(r[1].v)), r[2]>>

\* Boolean::is_eq: xor, then not.
BoolIsEq(c, p, q) ==
  LET r == BoolXor(c, p, q) IN
  IF ~r[1].ok THEN r ELSE <<Ok(BoolNot(r[1].v)), r[2]>>

\* Boolean::and.  Returns <<Result of cell, cs>>.
BoolAnd(c, p, q) ==
  IF (p.kind = "Constant" /\ ~p.b) \/ (q.kind = "Constant" /\ ~q.b)
    THEN <<Ok(BConst(FALSE)), c>>
  ELSE IF p.kind = "Constant" THEN <<Ok(q), c>>
  ELSE IF q.kind = "Constant" THEN <<Ok(p), c>>
  ELSE GateAlloc(c, OptAnd(BoolValue(c, p), BoolValue(c, q)),
                 BoolLC(p), BoolLC(q), <<>>, 1)

\* The loop of [Boolean]::is_eq: the per-cell is_eq results.
RECURSIVE EqResults(_, _, _, _, _)
EqResults(c, a, b, i, acc) ==
  IF i > Len(a) THEN <<Ok(acc), c>>
  ELSE LET r == BoolIsEq(c, a[i], b[i]) IN
       IF ~r[1].ok THEN r
       ELSE EqResults(r[2], a, b, i + 1, Append(acc, r[1].v))

\* Boolean::kary_and from cell i on, cur holding the conjunction so far.
RECURSIVE KaryAnd(_, _, _, _)
KaryAnd(c, bits, i, cur) ==
  IF i > Len(bits) THEN <<Ok(cur), c>>
  ELSE LET r == BoolAnd(c, cur, bits[i]) IN
       IF ~r[1].ok THEN r ELSE KaryAnd(r[2], bits, i + 1, r[1].v)

\* EqGadget::is_eq for Int8.  Returns <<Result of cell, cs>>.
IsEq(c, a, b) ==
  LET r == EqResults(c, a.bits, b.bits, 1, <<>>) IN
  IF ~r[1].ok THEN r ELSE KaryAnd(r[2], r[1].v, 2, r[1].v[1])

\* Boolean::conditional_enforce_equal under the condition TRUE: two unequal
\* constants are an error, two equal ones add nothing, anything else adds
\* the constraint (q - p) * 1 = 0.  Returns <<Result, cs>>.
BoolEnforceEqual(c, p, q) ==
  IF p.kind = "Constant" /\ q.kind = "Constant"
    THEN IF p.b = q.b THEN <<Ok(TRUE), c>>
         ELSE <<Err("AssignmentMissing"), c>>
    ELSE <<Ok(TRUE),
           EnforceConstraint(c, BoolLC(q) \o NegLC(BoolLC(p)), <<<<1, One>>>>,
                             <<>>)>>

\* EqGadget::conditional_enforce_equal for Int8 with condition TRUE (what
\* enforce_equal calls): cell by cell, stopping at the first error.
RECURSIVE EnforceEqualFrom(_, _, _, _)
EnforceEqualFrom(c, a, b, i) ==
  IF i > Len(a) THEN <<Ok(TRUE), c>>
  ELSE LET r == BoolEnforceEqual(c, a[i], b[i]) IN
       IF ~r[1].ok THEN r ELSE EnforceEqualFrom(r[2], a, b, i + 1)

\* Mutant: the comparison skipping cell 0.
EnforceEqualSkipFirst(c, a, b) == EnforceEqualFrom(c, a.bits, b.bits, 2)

\* EqGadget::enforce_equal for Int8.
EnforceEqual(c, a, b) == EnforceEqualFrom(c, a.bits, b.bits, 1)

(***************************************************************************)
(* The circuit under construction: one constraint system, two operands x   *)
(* and y, a third variable z (the tests' result_from_primitive_var), the   *)
(* outcome res of addmany([x, y]), eq of x.is_eq(y), enfXY of              *)
(* x.enforce_equal(y) and enfZR of z.enforce_equal(res).                   *)
(***************************************************************************)
\* What the value thunk of new_variable yields: a value, or (in a setup-only
\* pass) nothing.
Thunks(c) ==
  {Some(v) : v \in Vals} \cup (IF c.mode = "Setup" THEN {None} ELSE {})

\* The arguments of the constructor call that made an operand.
NoArgs == [ctor |-> "none", value |-> None, mode |-> "none"]
ConstArgs(v) == [ctor |-> "constant", value |-> Some(v), mode |-> "Constant"]
AllocArgs(t, m) == [ctor |-> "new_variable", value |-> t, mode |-> m]

Init ==
  /\ cs \in {NewCs(m) : m \in SynthesisModes}
  /\ xin = NoArgs /\ yin = NoArgs
  /\ x = Unset /\ y = Unset /\ z = Unset
  /\ res = Unset /\ eq = Unset /\ enfXY = Unset /\ enfZR = Unset

\* No gadget has been applied to x and y yet.
Fresh == res = Unset /\ eq = Unset /\ enfXY = Unset

\* x = Int8::constant(v)
ConstX ==
  /\ x = Unset
  /\ \E v \in Vals : x' = Ok(Constant(v)) /\ xin' = ConstArgs(v)
  /\ UNCHANGED <<cs, yin, y, z, res, eq, enfXY, enfZR>>

\* x = Int8::new_variable(cs, || t, m)
AllocX ==
  /\ x = Unset
  /\ \E t \in Thunks(cs), m \in AllocationModes :
       LET r == NewVariable(cs, t, m) IN
       x' = r[1] /\ cs' = r[2] /\ xin' = AllocArgs(t, m)
  /\ UNCHANGED <<yin, y, z, res, eq, enfXY, enfZR>>

ConstY ==
  /\ IsOk(x) /\ y = Unset
  /\ \E v \in Vals : y' = Ok(Constant(v)) /\ yin' = ConstArgs(v)
  /\ UNCHANGED <<cs, xin, x, z, res, eq, enfXY, enfZR>>

AllocY ==
  /\ IsOk(x) /\ y = Unset
  /\ \E t \in Thunks(cs), m \in AllocationModes :
       LET r == NewVariable(cs, t, m) IN
       y' = r[1] /\ cs' = r[2] /\ yin' = AllocArgs(t, m)
  /\ UNCHANGED <<xin, x, z, res, eq, enfXY, enfZR>>

\* Int8::addmany(&[x, y])
AddManyXY ==
  /\ IsOk(x) /\ IsOk(y) /\ Fresh
  /\ LET r == AddMany(cs, <<x.v, y.v>>) IN res' = r[1] /\ cs' = r[2]
  /\ UNCHANGED <<xin, yin, x, y, z, eq, enfXY, enfZR>>

\* x.is_eq(&y)
IsEqXY ==
  /\ IsOk(x) /\ IsOk(y) /\ Fresh
  /\ LET r == IsEq(cs, x.v, y.v) IN eq' = r[1] /\ cs' = r[2]
  /\ UNCHANGED <<xin, yin, x, y, z, res, enfXY, enfZR>>

\* x.enforce_equal(&y)
EnforceEqualXY ==
  /\ IsOk(x) /\ IsOk(y) /\ res = Unset /\ enfXY = Unset
  /\ LET r == EnforceEqual(cs, x.v, y.v) IN enfXY' = r[1] /\ cs' = r[2]
  /\ UNCHANGED <<xin, yin, x, y, z, res, eq, enfZR>>

\* The values z is witnessed with, once addmany has returned Ok: the exact
\* sum of the operands when it is an i8 (the tests' primitive_result), the
\* value stored in the result, and the first operand's value.
ZVals ==
  {v \in I8 : v = Unwrap(x.v.value) + Unwrap(y.v.value)}
    \cup {Unwrap(res.v.value), Unwrap(x.v.value)}

\* z = Int8::new_witness(cs, || v)
AllocZ ==
  /\ IsOk(res) /\ z = Unset
  /\ \E v \in ZVals :
       LET r == NewVariable(cs, Some(v), "Witness") IN z' = r[1] /\ cs' = r[2]
  /\ UNCHANGED <<xin, yin, x, y, res, eq, enfXY, enfZR>>

\* z.enforce_equal(&res)
EnforceEqualZR ==
  /\ IsOk(z) /\ IsOk(res) /\ enfZR = Unset
  /\ LET r == EnforceEqual(cs, z.v, res.v) IN enfZR' = r[1] /\ cs' = r[2]
  /\ UNCHANGED <<xin, yin, x, y, z, res, eq, enfXY>>

Next ==
  \/ ConstX \/ ConstY \/ AllocX \/ AllocY \/ AllocZ
  \/ AddManyXY \/ IsEqXY \/ EnforceEqualXY \/ EnforceEqualZR

Spec == Init /\ [][Next]_vars

(***************************************************************************)
(* The constructors over the whole i8 range, on a fresh constraint system. *)
(***************************************************************************)
ConstXFull ==
  /\ x = Unset
  /\ \E v \in I8 : x' = Ok(Constant(v)) /\ xin' = ConstArgs(v)
  /\ UNCHANGED <<cs, yin, y, z, res, eq, enfXY, enfZR>>

AllocXFull ==
  /\ x = Unset
  /\ \E t \in {Some(v) : v \in I8}, m \in AllocationModes :
       LET r == NewVariable(cs, t, m) IN
       x' = r[1] /\ cs' = r[2] /\ xin' = AllocArgs(t, m)
  /\ UNCHANGED <<yin, y, z, res, eq, enfXY, enfZR>>

NextFull == ConstXFull \/ AllocXFull

SpecFull == Init /\ [][NextFull]_vars

(***************************************************************************)
(* Vocabulary of the properties                                            *)
(***************************************************************************)
\* Bit i of the two's-complement pattern of v: bit i of v mod 2^8 read as an
\* unsigned number.
PatternBit(v, i) == ((v % Pow2(I8_SIZE_IN_BITS)) \div Pow2(i)) % 2 = 1

\* A sequence of 8 booleans read under two's complement: weight 2^i for
\* i < 7 and -2^7 for bit 7.
RECURSIVE WeightedSum(_, _)
WeightedSum(bs, i) ==
  IF i > Len(bs) THEN 0
  ELSE BoolToField(bs[i])
         * (IF i = I8_SIZE_IN_BITS THEN 0 - Pow2(i - 1) ELSE Pow2(i - 1))
       + WeightedSum(bs, i + 1)

\* The cells of n all have a value, and cell i has the value of bit i of v.
BitsAre(c, n, v) ==
  /\ Len(n.bits) = I8_SIZE_IN_BITS
  /\ \A i \in 1..I8_SIZE_IN_BITS :
       BoolValue(c, n.bits[i]) = Some(PatternBit(v, i - 1))

AllKind(n, kind) == \A i \in 1..Len(n.bits) : n.bits[i].kind = kind

AllWitness(n) ==
  \A i \in 1..Len(n.bits) :
     n.bits[i].kind = "Is" /\ n.bits[i].var[1] = "Witness"

\* C5: for every i8 v, the 8 cells of constant(v) are constants that
\* recombine under two's complement to v, the stored cleartext value is v,
\* and value() returns v.
C5_ConstantRoundTrip ==
  (xin.ctor = "constant") =>
     LET v == Unwrap(xin.value) IN
     /\ IsOk(x)
     /\ Len(x.v.bits) = I8_SIZE_IN_BITS
     /\ AllKind(x.v, "Constant")
     /\ WeightedSum([i \in 1..Len(x.v.bits) |-> x.v.bits[i].b], 1) = v
     /\ x.v.value = Some(v)
     /\ Value(cs, x.v) = Ok(v)

\* A negative constant has been built.
C5_Witness == xin.ctor = "constant" /\ IsOk(x) /\ x.v.value = Some(I8_MIN + 1)

\* C6: for every i8 v, new_variable under Constant mode and under Witness
\* mode yields 8 cells whose values are the bits of v's two's-complement
\* pattern (so value() returns v); Constant mode allocates no variable and
\* adds no constraint, Witness mode allocates exactly 8 witness variables.
C6_ModeIndependence ==
  (xin.ctor = "new_variable" /\ xin.mode \in {"Constant", "Witness"}) =>
     LET v == Unwrap(xin.value) IN
     /\ IsOk(x)
     /\ x.v.value = Some(v)
     /\ (cs.mode = "Prove" \/ xin.mode = "Constant") =>
          BitsAre(cs, x.v, v) /\ Value(cs, x.v) = Ok(v)
     /\ xin.mode = "Constant" =>
          AllKind(x.v, "Constant") /\ cs = NewCs(cs.mode)
     /\ xin.mode = "Witness" =>
          /\ AllWitness(x.v)
          /\ cs.num_witness = I8_SIZE_IN_BITS /\ cs.num_instance = 0
          /\ cs.mode = "Prove" => Len(cs.witness) = I8_SIZE_IN_BITS

\* A negative value has been allocated as a witness.
C6_Witness ==
  /\ xin.ctor = "new_variable" /\ xin.mode = "Witness" /\ cs.mode = "Prove"
  /\ IsOk(x) /\ x.v.value = Some(-2)
  /\ cs.num_witness = I8_SIZE_IN_BITS

\* Both operands exist and have a cleartext value.
Known == IsOk(x) /\ IsOk(y) /\ IsSome(x.v.value) /\ IsSome(y.v.value)
A == Unwrap(x.v.value)
B == Unwrap(y.v.value)

\* The operand was made by new_witness.
Witnessed(args) == args.ctor = "new_variable" /\ args.mode = "Witness"

\* The unsigned reading of an i8's 8-bit pattern.
Unsigned(v) == v % Pow2(I8_SIZE_IN_BITS)

\* The two's-complement wrap of an exact sum.
Wrapped(n) == ((n + Pow2(I8_SIZE_IN_BITS - 1)) % Pow2(I8_SIZE_IN_BITS))
                - Pow2(I8_SIZE_IN_BITS - 1)

\* The constraints addmany recorded: 0 * 0 = lc.
AddConstraints ==
  {i \in 1..Len(cs.constraints) :
     cs.constraints[i].a = <<>> /\ cs.constraints[i].b = <<>>}

\* The number of result cells subtracted in a linear combination.
ResultTerms(lc) == Cardinality({i \in 1..Len(lc) : lc[i][1] < 0})

\* C1 (as claimed): for witnessed operands, or a constant and a witnessed
\* one, with values a and b and a + b an i8, addmany returns Ok with the
\* value and the bits of a + b and the system is satisfied afterwards, also
\* after enforce_equal against a witness of a + b.
C1_AdditionCorrect ==
  (/\ cs.mode = "Prove" /\ res # Unset /\ Known
   /\ Witnessed(xin) \/ xin.ctor = "constant"
   /\ Witnessed(yin) \/ yin.ctor = "constant"
   /\ Witnessed(xin) \/ Witnessed(yin)
   /\ A + B \in I8) =>
     /\ IsOk(res)
     /\ res.v.value = Some(A + B)
     /\ BitsAre(cs, res.v, A + B)
     /\ (enfZR = Unset \/ z.v.value = Some(A + B)) =>
          IsSatisfied(cs) = Ok(TRUE)

\* C2 (as claimed): for witnessed operands whose exact sum is not an i8,
\* addmany returns an error.
C2_OverflowIsError ==
  (cs.mode = "Prove" /\ res # Unset /\ Known
     /\ Witnessed(xin) /\ Witnessed(yin) /\ A + B \notin I8) => IsErr(res)

\* C3 (as claimed): with an operand whose cleartext value is absent,
\* addmany does not fail: it returns 8 cells and an absent value, and the
\* addition constraint is recorded.
C3_UnknownIsNotError ==
  (res # Unset /\ IsOk(x) /\ IsOk(y)
     /\ (~IsSome(x.v.value) \/ ~IsSome(y.v.value))) =>
     /\ IsOk(res)
     /\ Len(res.v.bits) = I8_SIZE_IN_BITS
     /\ res.v.value = None
     /\ AddConstraints # {}

\* C4: addmany of two constant operands returns 8 constant cells and leaves
\* the constraint system as it was: no new variable, no new constraint.
C4_ConstantFastPath ==
  [][(res = Unset /\ res' # Unset
        /\ xin.ctor = "constant" /\ yin.ctor = "constant") =>
       /\ IsOk(res')
       /\ Len(res'.v.bits) = I8_SIZE_IN_BITS
       /\ AllKind(res'.v, "Constant")
       /\ cs' = cs]_vars

\* addmany has returned for two constants whose sum overflows.
C4_Witness ==
  /\ xin.ctor = "constant" /\ yin.ctor = "constant" /\ IsOk(res)
  /\ A = I8_MAX /\ B = 1

\* C7: for witnessed values a and b, is_eq evaluates to true iff a = b and
\* enforce_equal succeeds; afterwards the system is satisfied iff a = b.
C7_Equality ==
  (cs.mode = "Prove" /\ Known /\ Witnessed(xin) /\ Witnessed(yin)) =>
     /\ eq # Unset => IsOk(eq) /\ BoolValue(cs, eq.v) = Some(A = B)
     /\ enfXY # Unset => IsOk(enfXY) /\ IsSatisfied(cs) = Ok(A = B)
     /\ (eq # Unset /\ enfXY = Unset) => IsSatisfied(cs) = Ok(TRUE)

\* Two equal negative witnesses went through is_eq and enforce_equal.
C7_Witness ==
  /\ cs.mode = "Prove" /\ Known /\ Witnessed(xin) /\ Witnessed(yin)
  /\ A = -1 /\ B = -1 /\ IsOk(eq) /\ IsOk(enfXY)

\* Two different witnesses went through enforce_equal.
C7_WitnessDistinct ==
  /\ cs.mode = "Prove" /\ Known /\ Witnessed(xin) /\ Witnessed(yin)
  /\ A = -1 /\ B = I8_MAX /\ IsOk(enfXY)

\* C8: whenever addmany returns Ok for operands with values a and b, the
\* result has 8 cells, its stored value is ((a + b + 128) mod 256) - 128,
\* and wherever the cells have an assignment, cell i is bit i of that value
\* and value() returns it.
C8_WrappedResult ==
  (IsOk(res) /\ Known) =>
     /\ Len(res.v.bits) = I8_SIZE_IN_BITS
     /\ res.v.value = Some(Wrapped(A + B))
     /\ (cs.mode = "Prove" \/ AllKind(res.v, "Constant")) =>
          /\ BitsAre(cs, res.v, Wrapped(A + B))
          /\ Value(cs, res.v) = Ok(Wrapped(A + B))

\* addmany returned Ok on witnessed operands whose sum wraps.
C8_Witness ==
  /\ cs.mode = "Prove" /\ Known /\ Witnessed(xin) /\ Witnessed(yin)
  /\ IsOk(res) /\ A = I8_MAX /\ B = 1 /\ res.v.value = Some(I8_MIN)

\* C9 (as claimed): the result cells addmany allocates are enough to
\* represent the value of the operands' linear expression (the sum of their
\* unsigned 8-bit patterns).
C9_EnoughResultBits ==
  (cs.mode = "Prove" /\ res # Unset /\ Known) =>
     \A i \in AddConstraints :
        Unsigned(A) + Unsigned(B)
          <= Pow2(ResultTerms(cs.constraints[i].c)) - 1

C10_WitnessHolds ==
  /\ cs.mode = "Prove" /\ Known /\ xin.ctor = "constant" /\ Witnessed(yin)
  /\ IsOk(res) /\ A = 1 /\ B = 1
  /\ \E i \in AddConstraints : ConstraintHolds(cs, cs.constraints[i])

====
